---- MODULE Spec2Model ----
(***************************************************************************)
(* Model of the mpesa gateway client (src/service.go): one Client shared    *)
(* by concurrent callers (goroutines).  The shared state is the cached      *)
(* session, Client.sessionID and Client.sessionExpiration.  Each caller     *)
(* runs SessionID, PushAsync or Disburse statement by statement; pc[p]      *)
(* names the source line the caller is about to execute.                    *)
(*                                                                          *)
(* Time is counted in minutes (the unit of Config.SessionLifetimeMinutes).  *)
(* checkSessionID, getEncryptionKey, encryptKey and requestAdapter.adapt    *)
(* are called by service.go but defined elsewhere in the package; they are  *)
(* modelled from the specification (sections 4.1 to 4.3).                   *)
(***************************************************************************)
EXTENDS Integers, Sequences, FiniteSets, TLC

\* ------------------------------------------------------------------ bounds
\* The clock runs from 0 to MaxTime minutes.
MaxTime == 2
\* Config.SessionLifetimeMinutes is an int64 the client never validates; the
\* values tried are 0..MaxLifetime.
MaxLifetime == 1

\* NewClient is called at most MaxClients times on one Config.
MaxClients == 2

\* The goroutines sharing the client.
Procs == {"g1", "g2"}

LifetimeValues == 0..MaxLifetime

\* ------------------------------------------------------------ value spaces
\* Session ids the gateway may hand out; "" is the empty string.
SessionIDs == {"", "S1", "S2"}

\* SessionResponse as far as service.go reads it (fields ID and OutputErr).
SessionResponse == [ID : SessionIDs, OutputErr : {"", "invalid key"}]
\* The zero value SessionResponse{}.
ZeroSessionResponse == [ID |-> "", OutputErr |-> ""]

\* PushAsyncResponse / DisburseResponse: OutputErr and the operation's own fields.
OpResponse == [OutputErr : {"", "declined"}, fields : {"", "f1"}]
ZeroOpResponse == [OutputErr |-> "", fields |-> ""]

\* What c.base.Do hands back for the session call: err (is it non-nil),
\* res.Error (is it non-nil) and the decoded response.  The three ways of
\* failing come in every combination; a reply that fails in some way carries
\* no id, and a reply that fails in no way carries one.
SessionReplies ==
    {g \in [err : BOOLEAN, resError : BOOLEAN, response : SessionResponse] :
        (g.response.ID = "") = (g.err \/ g.resError \/ g.response.OutputErr # "")}
NoSessionReply == [err |-> FALSE, resError |-> FALSE, response |-> ZeroSessionResponse]

\* What c.base.Do hands back for a push or disburse call: a transport
\* failure decodes nothing, a business error carries no fields.
OpReplies ==
    {g \in [err : BOOLEAN, response : OpResponse] :
        /\ g.err => g.response = ZeroOpResponse
        /\ ~g.err => (g.response.OutputErr = "") = (g.response.fields = "f1")}
NoOpReply == [err |-> FALSE, response |-> ZeroOpResponse]

\* Operation kinds that reach the gateway (the request names of the package).
sessionID_kind == "sessionID"
pushPay == "pushPay"
disburse == "disburse"

VARIABLES
    now,               \* the wall clock, in minutes
    Conf,              \* Client.Conf (the fields the operations read)
    sessionID,         \* *Client.sessionID
    sessionExpiration, \* Client.sessionExpiration
    expIDs,            \* history: the ids of all (id, expiry) pairs, the
                       \* initial one or one an acquisition obtained, whose
                       \* expiry is the cached expiry
    pc,                \* per caller: the source line it is about to execute
    op,                \* per caller: the public operation it is inside
    calls,             \* per caller: gateway calls issued in this invocation
    usableAtEntry,     \* per caller, history: the cached session was usable
                       \* when the operation began
    keyErr,            \* per caller: err of line 116 is non-nil
    sreply,            \* per caller: res, err, response of line 130
    ret,               \* per caller: what SessionID returned
    readAt,            \* per caller: the time.Now() of line 149
    wrote,             \* per caller: cache fields stored in this invocation
    sess,              \* per caller: local `sess` of line 157 / 197
    oreply,            \* per caller: res, err, response of line 181 / 221
    result,            \* per caller: what PushAsync / Disburse returned
    cb,                \* per inbound call: where CallbackServeHTTP stands
    request,           \* per inbound call: the body the gateway posted
    reqBody,           \* per inbound call: local `reqBody` of line 246
    handled,           \* per inbound call: resp, err of line 248
    invoked,           \* per inbound call, history: HandleCallback invocations
    writer,            \* per inbound call: responses written to the ResponseWriter
    npc,               \* NewClient: the source line it is about to execute
    basePath,          \* NewClient: local `basePath` of line 80
    before,            \* NewClient, history: *conf as it was when the call began
    clients            \* history: the clients NewClient has returned

shared == <<now, Conf, sessionID, sessionExpiration, expIDs>>
locals == <<pc, op, calls, usableAtEntry, keyErr, sreply, ret, readAt, wrote, sess, oreply, result>>
relay == <<cb, request, reqBody, handled, invoked, writer>>
construction == <<npc, basePath, before, clients>>
vars == <<now, Conf, sessionID, sessionExpiration, expIDs,
          pc, op, calls, usableAtEntry, keyErr, sreply, ret, readAt, wrote, sess, oreply, result,
          cb, request, reqBody, handled, invoked, writer, npc, basePath, before, clients>>

NoRet == [response |-> ZeroSessionResponse, err |-> "nil"]
NoResult == [response |-> ZeroOpResponse, err |-> "nil"]

\* ---------------------------------------------------------- configuration
\* Text that NewClient formats is a sequence of pieces, so that formatting
\* is concatenation.  A configured host is one piece.
Hosts == {<<"openapi.m-pesa.com">>, <<"localhost:8080">>}
Markets == {"Tanzania", "Ghana"}
Platforms == {"SANDBOX", "OPENAPI"}
APIKeys == {"k1", "k2"}

\* Platform.String() and Market.URLContextValue(): the fixed renderings of
\* the two enums (spec section 6, base path pattern).
Platform_String(platform) == IF platform = "SANDBOX" THEN "sandbox" ELSE "openapi"

Market_URLContextValue(market) == IF market = "Tanzania" THEN "vodacomTZN" ELSE "vodafoneGHA"

\* A format that renders the market before the platform.
Sprintf_MarketFirst(host, platformStr, marketStr) ==
    <<"https://">> \o host \o <<"/", marketStr, "/ipg/v2/", platformStr, "/">>

\* Line 99: fmt.Sprintf("https://%s/%s/ipg/v2/%s/", basePath, platformStr, marketStr).
Sprintf(host, platformStr, marketStr) ==
    <<"https://">> \o host \o <<"/", platformStr, "/ipg/v2/", marketStr, "/">>

\* The Config values a caller hands to NewClient (the fields NewClient and
\* the operations read).
Configs ==
    [BasePath : Hosts, Market : Markets, Platform : Platforms, APIKey : APIKeys,
     SessionLifetimeMinutes : LifetimeValues]

\* The Configs the client of the operations is constructed from.
ClientConfigs ==
    {c \in Configs : /\ c.BasePath = <<"openapi.m-pesa.com">>
                     /\ c.Market = "Tanzania"
                     /\ c.Platform = "SANDBOX"
                     /\ c.APIKey = "k1"}

\* ----------------------------------------------------------- inbound calls
\* The inbound webhook calls the HTTP server is serving, each on a goroutine
\* of its own.
Inbound == {"r1", "r2"}

\* PushCallbackRequest values, and the bodies the gateway may post: the JSON
\* text of a payload, or text that does not decode.
Payloads == {"A", "B"}
NoPayload == "zero"
Bodies == {"{A}", "{B}", "not json"}
NoBody == ""

\* What HandleCallback may hand back: a result and an error ("nil" is none).
HandlerResults == [resp : {"zero", "ack1", "ack2"}, err : {"nil", "handler failed"}]
NoHandlerResult == [resp |-> "zero", err |-> "nil"]

\* ------------------------------------------------------------------- Init
\* No caller is inside an operation.
InitCallers ==
    /\ pc = [p \in Procs |-> "idle"]
    /\ op = [p \in Procs |-> "none"]
    /\ calls = [p \in Procs |-> <<>>]
    /\ usableAtEntry = [p \in Procs |-> FALSE]
    /\ keyErr = [p \in Procs |-> FALSE]
    /\ sreply = [p \in Procs |-> NoSessionReply]
    /\ ret = [p \in Procs |-> NoRet]
    /\ readAt = [p \in Procs |-> 0]
    /\ wrote = [p \in Procs |-> {}]
    /\ sess = [p \in Procs |-> ""]
    /\ oreply = [p \in Procs |-> NoOpReply]
    /\ result = [p \in Procs |-> NoResult]

\* No inbound call is being served.
InitRelay ==
    /\ cb = [r \in Inbound |-> "none"]
    /\ request = [r \in Inbound |-> NoBody]
    /\ reqBody = [r \in Inbound |-> NoPayload]
    /\ handled = [r \in Inbound |-> NoHandlerResult]
    /\ invoked = [r \in Inbound |-> 0]
    /\ writer = [r \in Inbound |-> <<>>]

\* NewClient has run once, on a Config c of ClientConfigs: sessionID points
\* at an empty string, sessionExpiration is the construction instant, and
\* Conf.BasePath is the formatted base path.  Every caller is idle.
Init ==
    /\ now = 0
    /\ \E c \in ClientConfigs :
        /\ Conf = [c EXCEPT !.BasePath =
                      Sprintf(c.BasePath, Platform_String(c.Platform), Market_URLContextValue(c.Market))]
        /\ before = c
        /\ clients = <<[from |-> c, sessionID |-> "", sessionExpiration |-> 0,
                        BasePath |-> Sprintf(c.BasePath, Platform_String(c.Platform),
                                             Market_URLContextValue(c.Market))]>>
    /\ npc = "idle"
    /\ basePath = <<>>
    /\ InitRelay
    /\ InitCallers
    /\ sessionID = ""
    /\ sessionExpiration = 0
    /\ expIDs = {""}

\* The clock advances.
Tick ==
    /\ now < MaxTime
    /\ now' = now + 1
    /\ UNCHANGED <<Conf, sessionID, sessionExpiration, expIDs>>
    /\ UNCHANGED <<relay, construction>>
    /\ UNCHANGED locals

\* ----------------------------------------------------------------- errors
\* The errors the operations return, by the place that makes them; "nil" is
\* no error.  The names in brackets are those of the specification.
ErrKeyEncryption == "getEncryptionKey failed"                      \* [EncryptionError]
ErrSessionTransport == "session call: base.Do failed"              \* [TransportError]
ErrSessionGateway == "could not fetch session id: res.Error"       \* [GatewayError]
ErrSessionBusiness == "could not fetch session id: OutputErr"      \* [BusinessError]
ErrTokenEncryption == "encryptKey failed"                          \* [EncryptionError]
ErrAdapt == "requestAdapter.adapt failed"                          \* [MissingFieldError]
ErrOpTransport == "base.Do failed"                                 \* [TransportError]
ErrPushBusiness == "could not perform c2b single stage request"    \* [BusinessError]
ErrDisburseBusiness == "could not perform disburse request"        \* [BusinessError]

SessionErrors == {ErrKeyEncryption, ErrSessionTransport, ErrSessionGateway, ErrSessionBusiness}

\* -------------------------------------------------------------- SessionID
\* SessionID without the OutputErr test of lines 141-144.
SessionOutcome_NoBusinessCheck(encOk, g) ==
    IF ~encOk THEN ErrKeyEncryption
    ELSE IF g.err THEN ErrSessionTransport
    ELSE IF g.resError THEN ErrSessionGateway
    ELSE "nil"

\* SessionID testing OutputErr before res.Error.
SessionOutcome_BusinessFirst(encOk, g) ==
    IF ~encOk THEN ErrKeyEncryption
    ELSE IF g.err THEN ErrSessionTransport
    ELSE IF g.response.OutputErr # "" THEN ErrSessionBusiness
    ELSE IF g.resError THEN ErrSessionGateway
    ELSE "nil"

\* Lines 116-144: which return SessionID takes, given whether the API key
\* encrypted and what base.Do handed back.  "nil" is the success path.
SessionOutcome(encOk, g) ==
    IF ~encOk THEN ErrKeyEncryption
    ELSE IF g.err THEN ErrSessionTransport
    ELSE IF g.resError THEN ErrSessionGateway
    ELSE IF g.response.OutputErr # "" THEN ErrSessionBusiness
    ELSE "nil"

\* Lines 118, 132, 137, 143: the response value returned beside each error.
SessionErrResponse(kind, g) ==
    IF kind = ErrKeyEncryption THEN ZeroSessionResponse
    ELSE IF kind = ErrSessionGateway THEN ZeroSessionResponse
    ELSE g.response

\* An expiry that leaves the lifetime out.
Expiration_NoLifetime(t, lifetime) == t

\* Lines 146-149: expiration := time.Now().Add(SessionLifetimeMinutes * time.Minute).
Expiration(t, lifetime) == t + lifetime

\* Line 116: token, err := c.getEncryptionKey().  The encryption of the API
\* key succeeds or fails (spec 4.1 step 1); on failure SessionID returns.
getEncryptionKey(p, encOk) ==
    IF encOk
    THEN /\ keyErr' = [keyErr EXCEPT ![p] = FALSE]
         /\ pc' = [pc EXCEPT ![p] = "l130"]
         /\ ret' = ret
    ELSE /\ keyErr' = [keyErr EXCEPT ![p] = TRUE]
         /\ pc' = [pc EXCEPT ![p] = "sret"]
         /\ ret' = [ret EXCEPT ![p] =
                [response |-> SessionErrResponse(SessionOutcome(FALSE, NoSessionReply), NoSessionReply),
                 err |-> SessionOutcome(FALSE, NoSessionReply)]]

\* A SessionID that hands back the cached session while it is usable.
SessionIDBegin_Cached(p) ==
    /\ pc[p] = "idle"
    /\ op' = [op EXCEPT ![p] = "SessionID"]
    /\ usableAtEntry' = [usableAtEntry EXCEPT ![p] = now < sessionExpiration]
    /\ IF now < sessionExpiration
       THEN /\ pc' = [pc EXCEPT ![p] = "sret"]
            /\ ret' = [ret EXCEPT ![p] = [response |-> [ID |-> sessionID, OutputErr |-> ""], err |-> "nil"]]
            /\ keyErr' = keyErr
       ELSE \E encOk \in BOOLEAN : getEncryptionKey(p, encOk)
    /\ UNCHANGED shared
    /\ UNCHANGED <<relay, construction>>
    /\ UNCHANGED <<calls, sreply, readAt, wrote, sess, oreply, result>>

\* A caller invokes SessionID: lines 114-119.
SessionIDBegin(p) ==
    /\ pc[p] = "idle"
    /\ op' = [op EXCEPT ![p] = "SessionID"]
    /\ usableAtEntry' = [usableAtEntry EXCEPT ![p] = now < sessionExpiration]
    /\ \E encOk \in BOOLEAN : getEncryptionKey(p, encOk)
    /\ UNCHANGED shared
    /\ UNCHANGED <<relay, construction>>
    /\ UNCHANGED <<calls, sreply, readAt, wrote, sess, oreply, result>>

\* SessionID entered from checkSessionID: lines 114-119.
SessionIDEnter(p) ==
    /\ pc[p] = "l116"
    /\ \E encOk \in BOOLEAN : getEncryptionKey(p, encOk)
    /\ UNCHANGED shared
    /\ UNCHANGED <<relay, construction>>
    /\ UNCHANGED <<op, calls, usableAtEntry, sreply, readAt, wrote, sess, oreply, result>>

\* A SessionID that issues the session call again when base.Do failed.
SessionIDDo_Retry(p) ==
    /\ pc[p] = "l130"
    /\ calls' = [calls EXCEPT ![p] = Append(@, sessionID_kind)]
    /\ \E g \in SessionReplies :
        /\ sreply' = [sreply EXCEPT ![p] = g]
        /\ IF SessionOutcome(TRUE, g) = "nil"
           THEN /\ pc' = [pc EXCEPT ![p] = "l146"]
                /\ ret' = ret
           ELSE IF g.err
           THEN /\ pc' = pc
                /\ ret' = ret
           ELSE /\ pc' = [pc EXCEPT ![p] = "sret"]
                /\ ret' = [ret EXCEPT ![p] =
                       [response |-> SessionErrResponse(SessionOutcome(TRUE, g), g),
                        err |-> SessionOutcome(TRUE, g)]]
    /\ UNCHANGED shared
    /\ UNCHANGED <<relay, construction>>
    /\ UNCHANGED <<op, usableAtEntry, keyErr, readAt, wrote, sess, oreply, result>>

\* Lines 120-144: the session call is issued, base.Do hands back g, and the
\* result is classified.
SessionIDDo(p) ==
    /\ pc[p] = "l130"
    /\ calls' = [calls EXCEPT ![p] = Append(@, sessionID_kind)]
    /\ \E g \in SessionReplies :
        /\ sreply' = [sreply EXCEPT ![p] = g]
        /\ IF SessionOutcome(TRUE, g) = "nil"
           THEN /\ pc' = [pc EXCEPT ![p] = "l146"]
                /\ ret' = ret
           ELSE /\ pc' = [pc EXCEPT ![p] = "sret"]
                /\ ret' = [ret EXCEPT ![p] =
                       [response |-> SessionErrResponse(SessionOutcome(TRUE, g), g),
                        err |-> SessionOutcome(TRUE, g)]]
    /\ UNCHANGED shared
    /\ UNCHANGED <<relay, construction>>
    /\ UNCHANGED <<op, usableAtEntry, keyErr, readAt, wrote, sess, oreply, result>>

\* Lines 146-150: the expiry is computed from the clock and stored.
SessionIDStoreExpiration(p) ==
    /\ pc[p] = "l146"
    /\ readAt' = [readAt EXCEPT ![p] = now]
    /\ sessionExpiration' = Expiration(now, Conf.SessionLifetimeMinutes)
    /\ expIDs' = IF Expiration(now, Conf.SessionLifetimeMinutes) = sessionExpiration
                  THEN expIDs \cup {sreply[p].response.ID}
                  ELSE {sreply[p].response.ID}
    /\ wrote' = [wrote EXCEPT ![p] = @ \cup {"sessionExpiration"}]
    /\ pc' = [pc EXCEPT ![p] = "l151"]
    /\ UNCHANGED <<now, Conf, sessionID>>
    /\ UNCHANGED <<relay, construction>>
    /\ UNCHANGED <<op, calls, usableAtEntry, keyErr, sreply, ret, sess, oreply, result>>

\* Lines 151-153: the id is stored and the response returned.
SessionIDStoreID(p) ==
    /\ pc[p] = "l151"
    /\ sessionID' = sreply[p].response.ID
    /\ wrote' = [wrote EXCEPT ![p] = @ \cup {"sessionID"}]
    /\ ret' = [ret EXCEPT ![p] = [response |-> sreply[p].response, err |-> "nil"]]
    /\ readAt' = [readAt EXCEPT ![p] = 0]
    /\ pc' = [pc EXCEPT ![p] = "sret"]
    /\ UNCHANGED <<now, Conf, sessionExpiration, expIDs>>
    /\ UNCHANGED <<relay, construction>>
    /\ UNCHANGED <<op, calls, usableAtEntry, keyErr, sreply, sess, oreply, result>>

\* ---------------------------------------------------- PushAsync, Disburse
\* A session that is still usable at the very instant it expires.
SessionUsable_AtExpiry(t, exp) == t <= exp

\* checkSessionID's test (spec 4.1): the cached session is usable at instant
\* t if t is before its expiry.
SessionUsable(t, exp) == t < exp

\* The operation kind each public operation sends (lines 172, 180 / 212, 220).
KindOf(o) == IF o = "PushAsync" THEN pushPay ELSE disburse

\* A classification that leaves the OutputErr test of lines 188 / 228 out.
OpOutcome_IgnoreOutputErr(o, g) == IF g.err THEN ErrOpTransport ELSE "nil"

\* Lines 183-193 / 223-233: the error returned once base.Do has handed back g.
OpOutcome(o, g) ==
    IF g.err THEN ErrOpTransport
    ELSE IF g.response.OutputErr # ""
         THEN (IF o = "PushAsync" THEN ErrPushBusiness ELSE ErrDisburseBusiness)
    ELSE "nil"

\* checkSessionID, up to its call of c.SessionID (spec 4.1, ensureSession):
\* it hands back the cached id at once if the session is usable, and calls
\* c.SessionID otherwise.
checkSessionID(p) ==
    IF SessionUsable(now, sessionExpiration)
    THEN /\ usableAtEntry' = [usableAtEntry EXCEPT ![p] = TRUE]
         /\ sess' = [sess EXCEPT ![p] = sessionID]
         /\ pc' = [pc EXCEPT ![p] = "l161"]
    ELSE /\ usableAtEntry' = [usableAtEntry EXCEPT ![p] = FALSE]
         /\ sess' = sess
         /\ pc' = [pc EXCEPT ![p] = "l116"]

\* checkSessionID, once c.SessionID has returned r (spec 4.1): it hands back
\* the new id, or the error.
checkSessionIDResult(r) == [sess |-> r.response.ID, err |-> r.err]

\* Lines 156-157 / 196-197: the operation starts by calling checkSessionID.
OpBegin(p, o) ==
    /\ pc[p] = "idle"
    /\ op' = [op EXCEPT ![p] = o]
    /\ checkSessionID(p)
    /\ UNCHANGED shared
    /\ UNCHANGED <<relay, construction>>
    /\ UNCHANGED <<calls, keyErr, sreply, ret, readAt, wrote, oreply, result>>

PushAsyncBegin(p) == OpBegin(p, "PushAsync")

DisburseBegin(p) == OpBegin(p, "Disburse")

\* An operation that goes on with the cached id when the refresh failed.
OpResume_Fallback(p) ==
    /\ pc[p] = "sret"
    /\ op[p] \in {"PushAsync", "Disburse"}
    /\ result' = result
    /\ sess' = [sess EXCEPT ![p] =
            IF ret[p].err # "nil" THEN sessionID ELSE checkSessionIDResult(ret[p]).sess]
    /\ pc' = [pc EXCEPT ![p] = "l161"]
    /\ sreply' = [sreply EXCEPT ![p] = NoSessionReply]
    /\ UNCHANGED shared
    /\ UNCHANGED <<relay, construction>>
    /\ UNCHANGED <<op, calls, usableAtEntry, keyErr, ret, readAt, wrote, oreply>>

\* Lines 157-160 / 197-200: c.SessionID has returned into checkSessionID,
\* which returns in turn; on an error the operation returns it with the zero
\* response, and otherwise goes on with the id as sess.
OpResume(p) ==
    /\ pc[p] = "sret"
    /\ op[p] \in {"PushAsync", "Disburse"}
    /\ IF checkSessionIDResult(ret[p]).err # "nil"
       THEN /\ result' = [result EXCEPT ![p] =
                   [response |-> ZeroOpResponse, err |-> checkSessionIDResult(ret[p]).err]]
            /\ sess' = sess
            /\ pc' = [pc EXCEPT ![p] = "done"]
       ELSE /\ result' = result
            /\ sess' = [sess EXCEPT ![p] = checkSessionIDResult(ret[p]).sess]
            /\ pc' = [pc EXCEPT ![p] = "l161"]
    /\ sreply' = [sreply EXCEPT ![p] = NoSessionReply]
    /\ UNCHANGED shared
    /\ UNCHANGED <<relay, construction>>
    /\ UNCHANGED <<op, calls, usableAtEntry, keyErr, ret, readAt, wrote, oreply>>

\* An operation that sends its call although the request did not adapt.
OpSend_IgnoreAdaptErr(p, o) ==
    /\ pc[p] = "l161"
    /\ op[p] = o
    /\ \E encOk \in BOOLEAN, g \in OpReplies :
        IF ~encOk
        THEN /\ result' = [result EXCEPT ![p] = [response |-> ZeroOpResponse, err |-> ErrTokenEncryption]]
             /\ UNCHANGED <<calls, oreply>>
        ELSE /\ calls' = [calls EXCEPT ![p] = Append(@, KindOf(o))]
             /\ oreply' = [oreply EXCEPT ![p] = g]
             /\ result' = [result EXCEPT ![p] =
                    [response |-> g.response,
                     err |-> IF OpOutcome(o, g) = "nil" THEN ErrAdapt ELSE OpOutcome(o, g)]]
    /\ pc' = [pc EXCEPT ![p] = "done"]
    /\ UNCHANGED shared
    /\ UNCHANGED <<relay, construction>>
    /\ UNCHANGED <<op, usableAtEntry, keyErr, sreply, ret, readAt, wrote, sess>>

\* Lines 161-193 / 201-233: the session id is encrypted into the bearer
\* token, the request adapted, the call issued and its result classified.
\* None of these steps reads or writes the cached session.
OpSend(p, o) ==
    /\ pc[p] = "l161"
    /\ op[p] = o
    /\ \E encOk \in BOOLEAN, adaptOk \in BOOLEAN, g \in OpReplies :
        IF ~encOk
        THEN /\ result' = [result EXCEPT ![p] = [response |-> ZeroOpResponse, err |-> ErrTokenEncryption]]
             /\ UNCHANGED <<calls, oreply>>
        ELSE IF ~adaptOk
        THEN /\ result' = [result EXCEPT ![p] = [response |-> ZeroOpResponse, err |-> ErrAdapt]]
             /\ UNCHANGED <<calls, oreply>>
        ELSE /\ calls' = [calls EXCEPT ![p] = Append(@, KindOf(o))]
             /\ oreply' = [oreply EXCEPT ![p] = g]
             /\ result' = [result EXCEPT ![p] = [response |-> g.response, err |-> OpOutcome(o, g)]]
    /\ pc' = [pc EXCEPT ![p] = "done"]
    /\ UNCHANGED shared
    /\ UNCHANGED <<relay, construction>>
    /\ UNCHANGED <<op, usableAtEntry, keyErr, sreply, ret, readAt, wrote, sess>>

PushAsyncSend(p) == OpSend(p, "PushAsync")

DisburseSend(p) == OpSend(p, "Disburse")

\* ----------------------------------------------------------------- QueryTx
\* A QueryTx that returns the zero response and no error.
QueryTx_SilentSuccess(p) ==
    /\ pc[p] = "idle"
    /\ op' = [op EXCEPT ![p] = "QueryTx"]
    /\ pc' = [pc EXCEPT ![p] = "done"]
    /\ UNCHANGED shared
    /\ UNCHANGED <<relay, construction>>
    /\ UNCHANGED <<calls, usableAtEntry, keyErr, sreply, ret, readAt, wrote, sess, oreply, result>>

\* Lines 69-72: panic("implement me").  The call never returns: the panic
\* unwinds the calling goroutine, which takes no further step of the client.
QueryTx(p) ==
    /\ pc[p] = "idle"
    /\ op' = [op EXCEPT ![p] = "QueryTx"]
    /\ pc' = [pc EXCEPT ![p] = "panic"]
    /\ UNCHANGED shared
    /\ UNCHANGED <<relay, construction>>
    /\ UNCHANGED <<calls, usableAtEntry, keyErr, sreply, ret, readAt, wrote, sess, oreply, result>>

\* The caller takes the result; the goroutine is free for its next call.
Return(p) ==
    /\ \/ pc[p] = "done"
       \/ pc[p] = "sret" /\ op[p] = "SessionID"
    /\ pc' = [pc EXCEPT ![p] = "idle"]
    /\ op' = [op EXCEPT ![p] = "none"]
    /\ calls' = [calls EXCEPT ![p] = <<>>]
    /\ usableAtEntry' = [usableAtEntry EXCEPT ![p] = FALSE]
    /\ keyErr' = [keyErr EXCEPT ![p] = FALSE]
    /\ sreply' = [sreply EXCEPT ![p] = NoSessionReply]
    /\ ret' = [ret EXCEPT ![p] = NoRet]
    /\ readAt' = [readAt EXCEPT ![p] = 0]
    /\ wrote' = [wrote EXCEPT ![p] = {}]
    /\ sess' = [sess EXCEPT ![p] = ""]
    /\ oreply' = [oreply EXCEPT ![p] = NoOpReply]
    /\ result' = [result EXCEPT ![p] = NoResult]
    /\ UNCHANGED shared
    /\ UNCHANGED <<relay, construction>>

\* -------------------------------------------------------- CallbackServeHTTP
\* c.rv.Receive decoding the posted body into *body: the payload, or
\* NoPayload when the text does not decode.
Decode(b) == IF b = "{A}" THEN "A" ELSE IF b = "{B}" THEN "B" ELSE NoPayload

\* The err of line 240: Receive fails when the one-minute deadline of line
\* 237 passes first, or when the body does not decode.
ReceiveErr(b, expired) ==
    IF expired THEN "context deadline exceeded"
    ELSE IF Decode(b) = NoPayload THEN "cannot decode body"
    ELSE "nil"

\* http.Error(writer, msg, http.StatusInternalServerError), lines 243 and 250.
HttpError(msg) == [status |-> 500, contentType |-> "text/plain", body |-> <<"text", msg>>]

\* Lines 254-258: base.NewResponse(200, resp, hs) written by c.rp.Reply.
Reply(resp) == [status |-> 200, contentType |-> "application/json", body |-> <<"json", resp>>]

\* Lines 236-239: the HTTP server hands an inbound call to the relay.
CallbackServeHTTP(r) ==
    /\ cb[r] = "none"
    /\ \E b \in Bodies : request' = [request EXCEPT ![r] = b]
    /\ cb' = [cb EXCEPT ![r] = "receiving"]
    /\ UNCHANGED <<reqBody, handled, invoked, writer>>
    /\ UNCHANGED <<shared, locals, construction>>

\* A relay that goes on to the handler after it has written the 500.
Receive_NoReturn(r) ==
    /\ cb[r] = "receiving"
    /\ \E expired \in BOOLEAN :
        /\ writer' = [writer EXCEPT ![r] =
                IF ReceiveErr(request[r], expired) # "nil"
                THEN Append(@, HttpError(ReceiveErr(request[r], expired))) ELSE @]
        /\ reqBody' = [reqBody EXCEPT ![r] =
                IF ReceiveErr(request[r], expired) # "nil" THEN NoPayload ELSE Decode(request[r])]
    /\ cb' = [cb EXCEPT ![r] = "handling"]
    /\ UNCHANGED <<request, handled, invoked>>
    /\ UNCHANGED <<shared, locals, construction>>

\* Lines 240-246: the body is received and decoded; on an error the relay
\* writes the 500 and returns.
Receive(r) ==
    /\ cb[r] = "receiving"
    /\ \E expired \in BOOLEAN :
        IF ReceiveErr(request[r], expired) # "nil"
        THEN /\ writer' = [writer EXCEPT ![r] = Append(@, HttpError(ReceiveErr(request[r], expired)))]
             /\ cb' = [cb EXCEPT ![r] = "erroring"]
             /\ reqBody' = reqBody
        ELSE /\ reqBody' = [reqBody EXCEPT ![r] = Decode(request[r])]
             /\ cb' = [cb EXCEPT ![r] = "handling"]
             /\ writer' = writer
    /\ UNCHANGED <<request, handled, invoked>>
    /\ UNCHANGED <<shared, locals, construction>>

\* A relay that replies 200 with the handler's result whatever err is.
HandleCallback_ReplyAlways(r) ==
    /\ cb[r] = "handling"
    /\ invoked' = [invoked EXCEPT ![r] = @ + 1]
    /\ \E h \in HandlerResults :
        /\ handled' = [handled EXCEPT ![r] = h]
        /\ writer' = [writer EXCEPT ![r] = Append(@, Reply(h.resp))]
        /\ cb' = [cb EXCEPT ![r] = "replying"]
    /\ UNCHANGED <<request, reqBody>>
    /\ UNCHANGED <<shared, locals, construction>>

\* A relay that goes on to the reply after it has written the handler's 500.
HandleCallback_NoReturn(r) ==
    /\ cb[r] = "handling"
    /\ invoked' = [invoked EXCEPT ![r] = @ + 1]
    /\ \E h \in HandlerResults :
        /\ handled' = [handled EXCEPT ![r] = h]
        /\ writer' = [writer EXCEPT ![r] =
                IF h.err # "nil" THEN @ \o <<HttpError(h.err), Reply(h.resp)>>
                ELSE Append(@, Reply(h.resp))]
        /\ cb' = [cb EXCEPT ![r] = "replying"]
    /\ UNCHANGED <<request, reqBody>>
    /\ UNCHANGED <<shared, locals, construction>>

\* Lines 246-258: the handler is invoked with the decoded payload; on an
\* error the relay writes the 500 with the error's message and returns, and
\* otherwise it replies 200 with the handler's result.
HandleCallback(r) ==
    /\ cb[r] = "handling"
    /\ invoked' = [invoked EXCEPT ![r] = @ + 1]
    /\ \E h \in HandlerResults :
        /\ handled' = [handled EXCEPT ![r] = h]
        /\ IF h.err # "nil"
           THEN /\ writer' = [writer EXCEPT ![r] = Append(@, HttpError(h.err))]
                /\ cb' = [cb EXCEPT ![r] = "erroring"]
           ELSE /\ writer' = [writer EXCEPT ![r] = Append(@, Reply(h.resp))]
                /\ cb' = [cb EXCEPT ![r] = "replying"]
    /\ UNCHANGED <<request, reqBody>>
    /\ UNCHANGED <<shared, locals, construction>>

\* Line 259 and the returns of lines 244 and 251: CallbackServeHTTP returns
\* and the server completes the call; the relay keeps nothing of it.
CallbackReturn(r) ==
    /\ cb[r] \in {"replying", "erroring"}
    /\ cb' = [cb EXCEPT ![r] = "none"]
    /\ request' = [request EXCEPT ![r] = NoBody]
    /\ reqBody' = [reqBody EXCEPT ![r] = NoPayload]
    /\ handled' = [handled EXCEPT ![r] = NoHandlerResult]
    /\ invoked' = [invoked EXCEPT ![r] = 0]
    /\ writer' = [writer EXCEPT ![r] = <<>>]
    /\ UNCHANGED <<shared, locals, construction>>

\* The relay alone: inbound calls served by a constructed client whose
\* callers are idle (spec 4.5: the relay has no session dependency).
CallbackNext ==
    \E r \in Inbound :
        \/ CallbackServeHTTP(r)
        \/ Receive(r)
        \/ HandleCallback(r)
        \/ CallbackReturn(r)

CallbackSpec == Init /\ [][CallbackNext]_vars

\* Receive is bounded by the deadline of line 237, and the handler is taken
\* to return: each step of a run, once enabled, is eventually taken.
CallbackFairSpec ==
    /\ Init
    /\ [][CallbackNext]_vars
    /\ \A r \in Inbound : WF_vars(Receive(r)) /\ WF_vars(HandleCallback(r))

\* ---------------------------------------------------------------- NewClient
\* A caller holds one Config, whose address it hands to NewClient: Conf is
\* that Config, and Client.Conf of every client built from it points at it.
\* The options of lines 91-93 are taken to leave Client.Conf alone.
InitNewClient ==
    /\ now = 0
    /\ Conf \in Configs
    /\ before = Conf
    /\ clients = <<>>
    /\ npc = "idle"
    /\ basePath = <<>>
    /\ InitRelay
    /\ InitCallers
    /\ sessionID = ""
    /\ sessionExpiration = 0
    /\ expIDs = {""}

\* Lines 74-89: basePath := conf.BasePath, and the Client is allocated with
\* Conf: conf, an empty session id and sessionExpiration: time.Now().
NewClientBegin ==
    /\ npc = "idle"
    /\ Len(clients) < MaxClients
    /\ before' = Conf
    /\ basePath' = Conf.BasePath
    /\ npc' = "l91"
    /\ UNCHANGED <<clients, shared, locals, relay>>

\* Lines 91-111: the base path is formatted from the local basePath and the
\* renderings of client.Conf's platform and market, and stored in
\* client.Conf.BasePath, which is the caller's Config; the client is returned.
NewClientFinish ==
    /\ npc = "l91"
    /\ Conf' = [Conf EXCEPT !.BasePath =
                   Sprintf(basePath, Platform_String(Conf.Platform), Market_URLContextValue(Conf.Market))]
    /\ clients' = Append(clients,
                     [from |-> before, sessionID |-> "", sessionExpiration |-> now,
                      BasePath |-> Sprintf(basePath, Platform_String(Conf.Platform),
                                           Market_URLContextValue(Conf.Market))])
    /\ npc' = "idle"
    /\ basePath' = <<>>
    /\ before' = before
    /\ UNCHANGED <<now, sessionID, sessionExpiration, expIDs>>
    /\ UNCHANGED <<locals, relay>>

NewClientNext ==
    \/ NewClientBegin
    \/ NewClientFinish

NewClientSpec == InitNewClient /\ [][NewClientNext]_vars

Next ==
    \/ Tick
    \/ \E p \in Procs :
        \/ SessionIDBegin(p)
        \/ SessionIDEnter(p)
        \/ SessionIDDo(p)
        \/ SessionIDStoreExpiration(p)
        \/ SessionIDStoreID(p)
        \/ PushAsyncBegin(p)
        \/ DisburseBegin(p)
        \/ OpResume(p)
        \/ PushAsyncSend(p)
        \/ DisburseSend(p)
        \/ QueryTx(p)
        \/ Return(p)

Spec == Init /\ [][Next]_vars

\* ------------------------------------------------------------------ claims
PushOps == {"PushAsync", "Disburse"}

\* C1: PushAsync and Disburse obtain their session token from the cache, with
\* no session call, exactly when the cached expiry is later than the clock at
\* the moment of the check; otherwise no token is handed over until a session
\* call has been issued.
C1_Check(p) ==
    (pc[p] = "idle" /\ op'[p] \in PushOps) =>
        /\ usableAtEntry'[p] = (now < sessionExpiration)
        /\ IF now < sessionExpiration
           THEN pc'[p] = "l161" /\ sess'[p] = sessionID /\ calls'[p] = <<>>
           ELSE pc'[p] = "l116" /\ calls'[p] = <<>>
C1_TokenAfterCall(p) ==
    (op[p] \in PushOps /\ pc[p] = "l161" /\ ~usableAtEntry[p]) =>
        /\ calls[p] = <<sessionID_kind>>
        /\ sess[p] = ret[p].response.ID
C1_SessionCaching ==
    /\ [][\A p \in Procs : C1_Check(p)]_vars
    /\ [](\A p \in Procs : C1_TokenAfterCall(p))
\* One caller holds a token taken from the cache, another a token it had to
\* acquire.
C1_Witness ==
    \E p, q \in Procs :
        /\ op[p] = "PushAsync" /\ pc[p] = "l161" /\ usableAtEntry[p] /\ calls[p] = <<>>
        /\ op[q] = "Disburse" /\ pc[q] = "l161" /\ ~usableAtEntry[q]

\* The session call has handed back a reply that fails in no way.
ReplyClean(g) == ~g.err /\ ~g.resError /\ g.response.OutputErr = ""

\* C2: a session acquisition that fails stores nothing: the step on which it
\* fails leaves the cached id and the cached expiry as they are, the caller
\* has stored no field when it returns the error, and the cache changes only
\* on a step of a caller whose reply failed in no way.
C2_Step(p) ==
    /\ (pc'[p] = "sret" /\ pc[p] # "sret" /\ ret'[p].err # "nil") =>
            (sessionID' = sessionID /\ sessionExpiration' = sessionExpiration)
    /\ (pc[p] \in {"l146", "l151"} /\ pc'[p] # pc[p]) =>
            (~keyErr[p] /\ ReplyClean(sreply[p]))
C2_Stored(p) ==
    /\ (pc[p] = "sret" /\ ret[p].err # "nil") => wrote[p] = {}
    /\ (pc[p] = "done" /\ result[p].err \in SessionErrors) => wrote[p] = {}
    /\ wrote[p] # {} => pc[p] \in {"l151", "sret", "l161", "done"}
C2_FailureStoresNothing ==
    /\ [][/\ \A p \in Procs : C2_Step(p)
          /\ (sessionID' # sessionID \/ sessionExpiration' # sessionExpiration) =>
                \E p \in Procs : pc[p] \in {"l146", "l151"} /\ pc'[p] # pc[p]]_vars
    /\ [](\A p \in Procs : C2_Stored(p))
\* A business error has just been returned while a session acquired earlier
\* is cached.
C2_Witness ==
    \E p \in Procs :
        /\ pc[p] = "sret" /\ ret[p].err = ErrSessionBusiness
        /\ sreply[p].response.OutputErr = "invalid key"
        /\ sessionID = "S1" /\ sessionID \in expIDs /\ sessionExpiration > 0

\* C3 (as claimed): the cached (id, expiry) is the initial pair or the pair
\* one acquisition obtained.  (The clock never runs back and the lifetime is
\* fixed, so the pairs with the cached expiry are those of expIDs.)
C3_NeverPartial == sessionID \in expIDs

\* C4 (as claimed): a PushAsync that found the cached session expired has
\* issued one session call and then one push call when it returns.
C4_Original ==
    \A p \in Procs :
        (op[p] = "PushAsync" /\ pc[p] = "done" /\ ~usableAtEntry[p]) =>
            calls[p] = <<sessionID_kind, pushPay>>
\* C4 (amended): a PushAsync that found the cached session expired issues no
\* call if the API key does not encrypt, the session call alone if the
\* acquisition, the encryption of the session id or the adaptation fails, and
\* otherwise the session call followed by the push call; never anything else.
C4_Amended ==
    \A p \in Procs :
        (op[p] = "PushAsync" /\ pc[p] = "done" /\ ~usableAtEntry[p]) =>
            calls[p] =
                IF ret[p].err = ErrKeyEncryption THEN <<>>
                ELSE IF ret[p].err # "nil" \/ result[p].err \in {ErrTokenEncryption, ErrAdapt}
                     THEN <<sessionID_kind>>
                ELSE <<sessionID_kind, pushPay>>
\* A PushAsync that found the session expired has returned after both calls,
\* while another returned after the session call alone.
C4_Witness ==
    \E p, q \in Procs :
        /\ op[p] = "PushAsync" /\ pc[p] = "done" /\ ~usableAtEntry[p]
        /\ calls[p] = <<sessionID_kind, pushPay>> /\ result[p].err = "nil"
        /\ op[q] = "PushAsync" /\ pc[q] = "done" /\ ~usableAtEntry[q]
        /\ calls[q] = <<sessionID_kind>> /\ result[q].err = ErrAdapt

C6_Step(p) ==
    (pc[p] = "l151" /\ pc'[p] = "sret") =>
        /\ sessionID' = sreply[p].response.ID
        /\ sessionExpiration' = readAt[p] + Conf.SessionLifetimeMinutes
        /\ ret'[p] = [response |-> sreply[p].response, err |-> "nil"]
C6_StoresPair == [][\A p \in Procs : C6_Step(p)]_vars

\* C7 (as claimed): the expiry an acquisition stores is strictly later than
\* the clock reading it is computed from, whatever the configured lifetime.
C7_Step(p) == (pc[p] = "l146" /\ pc'[p] = "l151") => sessionExpiration' > now
C8_AlwaysAcquires ==
    \A p \in Procs :
        (op[p] = "SessionID" /\ pc[p] = "sret") =>
            /\ (ret[p].err # ErrKeyEncryption) => calls[p] = <<sessionID_kind>>
            /\ (ret[p].err = ErrKeyEncryption) => (keyErr[p] /\ calls[p] = <<>>)
            /\ (ret[p].err = "nil") => wrote[p] = {"sessionExpiration", "sessionID"}
\* A SessionID that began while the cached session was usable has called the
\* gateway and stored a new session.
C8_Witness ==
    \E p \in Procs :
        /\ op[p] = "SessionID" /\ pc[p] = "sret" /\ usableAtEntry[p]
        /\ ret[p].err = "nil" /\ calls[p] = <<sessionID_kind>>
        /\ wrote[p] = {"sessionExpiration", "sessionID"}

\* The operation of caller p has issued its push or disburse call.
CallMade(p) == Len(calls[p]) > 0 /\ calls[p][Len(calls[p])] = KindOf(op[p])

\* C9: once PushAsync or Disburse has made its call, it returns an error
\* exactly when base.Do reported one or the response's OutputErr is not
\* empty, and otherwise the response as decoded.
C9_OpErrors ==
    \A p \in Procs :
        (op[p] \in PushOps /\ pc[p] = "done" /\ CallMade(p)) =>
            /\ (result[p].err # "nil") = (oreply[p].err \/ oreply[p].response.OutputErr # "")
            /\ (~oreply[p].err /\ oreply[p].response.OutputErr # "") =>
                    result[p].err \in {ErrPushBusiness, ErrDisburseBusiness}
            /\ (result[p].err = "nil") => result[p].response = oreply[p].response
\* A push whose transport succeeded has returned a business error, and a
\* disburse has returned its response.
C9_Witness ==
    \E p, q \in Procs :
        /\ op[p] = "PushAsync" /\ pc[p] = "done" /\ CallMade(p)
        /\ ~oreply[p].err /\ oreply[p].response.OutputErr = "declined"
        /\ result[p].err = ErrPushBusiness
        /\ op[q] = "Disburse" /\ pc[q] = "done" /\ CallMade(q)
        /\ result[q].err = "nil" /\ result[q].response.fields = "f1"

\* C10: SessionID returns no error exactly when the API key encrypted, base.Do
\* reported no error, the result carries no error object and OutputErr is
\* empty; otherwise it returns the error of the first of these four tests,
\* taken in this order, that fails.
C10_SessionErrors ==
    \A p \in Procs :
        pc[p] = "sret" =>
            /\ (ret[p].err = "nil") = (~keyErr[p] /\ ReplyClean(sreply[p]))
            /\ (ret[p].err = ErrKeyEncryption) = keyErr[p]
            /\ (ret[p].err = ErrSessionTransport) = (~keyErr[p] /\ sreply[p].err)
            /\ (ret[p].err = ErrSessionGateway) =
                    (~keyErr[p] /\ ~sreply[p].err /\ sreply[p].resError)
            /\ (ret[p].err = ErrSessionBusiness) =
                    (~keyErr[p] /\ ~sreply[p].err /\ ~sreply[p].resError
                        /\ sreply[p].response.OutputErr # "")
\* A reply carrying both an error object and an OutputErr has been returned
\* as the gateway's error.
C10_Witness ==
    \E p \in Procs :
        /\ pc[p] = "sret" /\ ~sreply[p].err /\ sreply[p].resError
        /\ sreply[p].response.OutputErr = "invalid key"
        /\ ret[p].err = ErrSessionGateway

\* Number of calls of kind k in a caller's sequence of gateway calls.
CallsOfKind(cs, k) == Cardinality({i \in 1..Len(cs) : cs[i] = k})

\* C11: no operation retries.  Within one invocation of SessionID, PushAsync
\* or Disburse at most one session-acquisition call and at most one push or
\* disburse call are issued, whatever each call handed back: SessionID issues
\* nothing but its session call, and a push or disburse call is the last call
\* of its invocation and is of the operation's own kind.
C11_NoRetry ==
    \A p \in Procs :
        /\ CallsOfKind(calls[p], sessionID_kind) <= 1
        /\ CallsOfKind(calls[p], pushPay) + CallsOfKind(calls[p], disburse) <= 1
        /\ op[p] \in {"SessionID", "QueryTx", "none"} =>
               CallsOfKind(calls[p], pushPay) + CallsOfKind(calls[p], disburse) = 0
        /\ op[p] \in {"PushAsync", "Disburse"} =>
               \A i \in 1..Len(calls[p]) :
                   calls[p][i] # sessionID_kind => (i = Len(calls[p]) /\ calls[p][i] = KindOf(op[p]))

\* C11 witness: an invocation whose refresh succeeded and whose push call
\* failed in transport has returned that failure after one call of each kind.
C11_Witness ==
    \E p \in Procs :
        /\ pc[p] = "done"
        /\ op[p] = "PushAsync"
        /\ oreply[p].err
        /\ result[p].err = ErrOpTransport
        /\ calls[p] = <<sessionID_kind, pushPay>>

\* C14: QueryTx never returns a result.  The step that invokes it ends in
\* the panic, issues no gateway call and leaves the cached session as it was;
\* a caller inside QueryTx is in the panic and holds no result.
C14_Step(p) ==
    (pc[p] = "idle" /\ op'[p] = "QueryTx") =>
        /\ pc'[p] = "panic"
        /\ calls' = calls
        /\ sessionID' = sessionID
        /\ sessionExpiration' = sessionExpiration
        /\ result'[p] = NoResult

C14_NotImplemented ==
    /\ [][\A p \in Procs : C14_Step(p)]_vars
    /\ [](\A p \in Procs : op[p] = "QueryTx" =>
              (pc[p] = "panic" /\ calls[p] = <<>> /\ result[p] = NoResult))

\* C14 witness: a caller is in the panic of QueryTx while the client holds a
\* session another caller acquired before.
C14_Witness ==
    \E p \in Procs :
        /\ op[p] = "QueryTx"
        /\ pc[p] = "panic"
        /\ sessionID # ""

\* C12: an inbound call whose body cannot be received or decoded gets an
\* HTTP 500 and never reaches the handler.  Once the receive step of a call
\* is over without a decoded payload (always so for a body that does not
\* decode), the call is erroring, its one response is the 500 with the
\* receive error, and HandleCallback has not been invoked for it.
C12_UndecodableNeverHandled ==
    \A r \in Inbound :
        cb[r] \in {"handling", "replying", "erroring"} =>
            /\ Decode(request[r]) = NoPayload => reqBody[r] = NoPayload
            /\ reqBody[r] = NoPayload =>
                   /\ cb[r] = "erroring"
                   /\ invoked[r] = 0
                   /\ Len(writer[r]) = 1
                   /\ writer[r][1].status = 500
                   /\ writer[r][1].body[1] = "text"

\* C12 witness: a call that posted text which does not decode has its 500.
C12_Witness ==
    \E r \in Inbound :
        /\ request[r] = "not json"
        /\ cb[r] = "erroring"
        /\ writer[r] = <<HttpError("cannot decode body")>>

\* C13: for a call that decoded, the relay replies 200 with the handler's
\* result as the JSON body exactly when the handler returned no error; when
\* the handler failed the one response is the 500 carrying the handler's
\* error message, and the handler's result is written nowhere.
C13_ReplyIffHandlerOk ==
    \A r \in Inbound :
        invoked[r] > 0 =>
            /\ reqBody[r] \in Payloads
            /\ invoked[r] = 1
            /\ (cb[r] = "replying") = (handled[r].err = "nil")
            /\ (cb[r] = "erroring") = (handled[r].err # "nil")
            /\ handled[r].err = "nil" =>
                   writer[r] = <<[status |-> 200, contentType |-> "application/json",
                                  body |-> <<"json", handled[r].resp>>]>>
            /\ handled[r].err # "nil" =>
                   writer[r] = <<[status |-> 500, contentType |-> "text/plain",
                                  body |-> <<"text", handled[r].err>>]>>

\* C13 witness: a handler that handed back a result together with an error
\* has led to the 500.
C13_Witness ==
    \E r \in Inbound :
        /\ invoked[r] = 1
        /\ handled[r] = [resp |-> "ack1", err |-> "handler failed"]
        /\ cb[r] = "erroring"

\* The moves of one run of the relay, none being the time between two runs.
CallbackMoves ==
    {<<"none", "receiving">>, <<"receiving", "handling">>, <<"receiving", "erroring">>,
     <<"handling", "replying">>, <<"handling", "erroring">>,
     <<"replying", "none">>, <<"erroring", "none">>}

\* C17: every run of the relay goes receiving, handling, replying, or moves
\* to erroring from receiving or handling; replying and erroring end the
\* run; a run in replying has written the 200 and nothing else, a run in
\* erroring one 500 and nothing else, and a run not yet there has written
\* nothing; and a run that is receiving reaches replying or erroring, given
\* that the receive step and the handler return.
C17_StateMachine ==
    /\ [][\A r \in Inbound : cb'[r] # cb[r] => <<cb[r], cb'[r]>> \in CallbackMoves]_vars
    /\ [](\A r \in Inbound :
            /\ cb[r] \in {"none", "receiving", "handling"} => writer[r] = <<>>
            /\ cb[r] = "replying" => (Len(writer[r]) = 1 /\ writer[r][1].status = 200)
            /\ cb[r] = "erroring" => (Len(writer[r]) = 1 /\ writer[r][1].status = 500))
    /\ \A r \in Inbound : (cb[r] = "receiving") ~> (cb[r] \in {"replying", "erroring"})

\* C17 witness: one call has been replied to while another is erroring.
C17_Witness ==
    \E r, q \in Inbound :
        /\ cb[r] = "replying"
        /\ cb[q] = "erroring"
        /\ invoked[q] = 1

C19_ConfigUntouched ==
    (npc = "idle" /\ Len(clients) >= 1) =>
        /\ Conf = before
        /\ \A i, j \in 1..Len(clients) : clients[i].BasePath = clients[j].BasePath

\* C16: two callers p and q of PushAsync or Disburse have both found the
\* session expired and both refresh.  Each has issued a session call of its
\* own, and at the step by which p's refresh finishes, q's being finished
\* already, the cached session becomes the pair p obtained: p's id with the
\* expiry p computed.
C16_Step(p, q) ==
    (/\ p # q
     /\ op[p] \in PushOps /\ op[q] \in PushOps
     /\ ~usableAtEntry[p] /\ ~usableAtEntry[q]
     /\ wrote[q] = {"sessionExpiration", "sessionID"}
     /\ pc[p] = "l151" /\ pc'[p] = "sret") =>
        /\ calls[p] = <<sessionID_kind>>
        /\ calls[q][1] = sessionID_kind
        /\ sessionID' = sreply[p].response.ID
        /\ sessionExpiration' = Expiration(readAt[p], Conf.SessionLifetimeMinutes)

C16_LastRefreshWins == [][\A p, q \in Procs : C16_Step(p, q)]_vars

\* C18: the session id of a fresh client is empty and its expiry is the
\* construction instant, so an operation never finds it usable; the id an
\* operation turns into the bearer token of its push or disburse call is
\* therefore never the empty one.
C18_NoEmptyToken ==
    /\ (sessionID = "" /\ sessionExpiration = 0 /\ expIDs = {""}) =>
           ~SessionUsable(now, sessionExpiration)
    /\ \A p \in Procs : (op[p] \in PushOps /\ CallMade(p)) => sess[p] # ""
====
